---------------------------- MODULE Spec2Model ----------------------------
(***************************************************************************)
(* A model of src/app.py, the Client-Car Manager: an SQLite store with the *)
(* tables places, objects and settings, the functions that read and write  *)
(* it, and the Streamlit script that calls them from button handlers.      *)
(*                                                                         *)
(* Text values that the code inspects character by character (names, car   *)
(* numbers, search terms) are sequences of one-character strings;          *)
(* passwords are strings (only their length and equality are used).        *)
(* Every script run of a session is a sequence of steps, one per storage   *)
(* statement; pc[s] is the statement session s executes next and loc[s]    *)
(* holds the script's local variables.                                     *)
(***************************************************************************)
EXTENDS Integers, Sequences, FiniteSets, TLC

VARIABLES tables, settings, places, objects, seq, logged_in, pc, loc, view

vars == <<tables, settings, places, objects, seq, logged_in, pc, loc, view>>

(* The rows of the store. *)
db == <<tables, settings, places, objects, seq>>

-----------------------------------------------------------------------------
(* Bounds of the model. *)

\* The largest identifier AUTOINCREMENT hands out for a place.
MaxPlaceId == 2

\* The largest identifier AUTOINCREMENT hands out for an object.
MaxObjectId == 2

-----------------------------------------------------------------------------
(* Configuration and sentinels. *)

IMAGES_DIR == "images"

DefaultPassword == "admin123"

MinPasswordLen == 4

\* Python's None where the code returns an identifier.
NoneId == 0

\* Python's None where the code holds an image path or a hash.
None == <<>>

Sessions == {1, 2}

AllTables == {"places", "objects", "settings"}

-----------------------------------------------------------------------------
(* Text. *)

Whitespace == {" "}

\* str.strip(): leading and trailing whitespace removed.
RECURSIVE LStrip(_)
LStrip(str) ==
    IF str # <<>> /\ Head(str) \in Whitespace THEN LStrip(Tail(str)) ELSE str

RECURSIVE RStrip(_)
RStrip(str) ==
    IF str # <<>> /\ str[Len(str)] \in Whitespace
    THEN RStrip(SubSeq(str, 1, Len(str) - 1))
    ELSE str

Strip(str) == RStrip(LStrip(str))

\* SQLite's case folding in LIKE: ASCII letters only.
Lower(ch) ==
    CASE ch = "A" -> "a"
      [] ch = "B" -> "b"
      [] OTHER -> ch

\* SQLite's LIKE: % matches any run of characters, _ any one character,
\* every other character itself, ASCII letters compared without case.
RECURSIVE Like(_, _)
Like(pat, str) ==
    IF pat = <<>> THEN str = <<>>
    ELSE IF Head(pat) = "%"
         THEN \/ Like(Tail(pat), str)
              \/ (str # <<>> /\ Like(pat, Tail(str)))
    ELSE IF str = <<>> THEN FALSE
    ELSE IF Head(pat) = "_" THEN Like(Tail(pat), Tail(str))
    ELSE Lower(Head(pat)) = Lower(Head(str)) /\ Like(Tail(pat), Tail(str))

\* f"%{term}%"
Wildcard(term) == <<"%">> \o term \o <<"%">>

\* client_name.replace(" ", "_")
Sanitize(str) == [i \in 1..Len(str) |-> IF str[i] = " " THEN "_" ELSE str[i]]

\* hashlib.sha256(p.encode()).hexdigest(): a one-way digest, injective here.
Sha256(p) == <<"sha256", p>>

-----------------------------------------------------------------------------
(* The script's local variables, and what the page shows. *)

NoLocals ==
    [password |-> "", new_pw |-> "", confirm_pw |-> "",
     client_name |-> <<>>, car_number |-> <<>>, place |-> <<>>,
     image |-> "", term |-> <<>>,
     place_id |-> NoneId, object_id |-> NoneId, count |-> 0]

Blank == [kind |-> "none", rows |-> <<>>]

Message(kind) == [kind |-> kind, rows |-> <<>>]

Init ==
    /\ tables = {}
    /\ settings = {}
    /\ places = {}
    /\ objects = {}
    /\ seq = [places |-> 0, objects |-> 0]
    /\ logged_in = [s \in Sessions |-> FALSE]
    /\ pc = [s \in Sessions |-> "start"]
    /\ loc = [s \in Sessions |-> NoLocals]
    /\ view = [s \in Sessions |-> Blank]

\* The script run ends: its locals are gone, the page shows v.
Finish(s, v) ==
    /\ pc' = [pc EXCEPT ![s] = "idle"]
    /\ loc' = [loc EXCEPT ![s] = NoLocals]
    /\ view' = [view EXCEPT ![s] = v]

\* The script run goes on to the statement at label l.
Goto(s, l) == pc' = [pc EXCEPT ![s] = l]

-----------------------------------------------------------------------------
(* init_db, called at the top of every script run. *)

\* The three CREATE TABLE IF NOT EXISTS statements.
InitDbCreate(s) ==
    /\ pc[s] \in {"start", "idle"}
    /\ tables' = tables \cup AllTables
    /\ Goto(s, "init_select")
    /\ loc' = [loc EXCEPT ![s] = NoLocals]
    /\ view' = [view EXCEPT ![s] = Blank]
    /\ UNCHANGED <<settings, places, objects, seq, logged_in>>

\* A faulty variant of InitDbSelect: the default row is written without
\* looking for an existing one (INSERT OR REPLACE).
InitDbSelectReplacing(s) ==
    /\ pc[s] = "init_select"
    /\ settings' = {[key |-> "admin_password", value |-> Sha256(DefaultPassword)]}
    /\ Finish(s, Blank)
    /\ UNCHANGED <<tables, places, objects, seq, logged_in>>

\* SELECT value FROM settings WHERE key = 'admin_password'
InitDbSelect(s) ==
    /\ pc[s] = "init_select"
    /\ IF \E r \in settings : r.key = "admin_password"
       THEN Finish(s, Blank)
       ELSE Goto(s, "init_insert") /\ UNCHANGED <<loc, view>>
    /\ UNCHANGED <<db, logged_in>>

\* INSERT INTO settings (key, value): key is the PRIMARY KEY, so a second
\* row with the key raises IntegrityError and the script run ends there.
InitDbInsert(s) ==
    /\ pc[s] = "init_insert"
    /\ IF \E r \in settings : r.key = "admin_password"
       THEN settings' = settings /\ Finish(s, Message("exception"))
       ELSE /\ settings' = settings \cup
                  {[key |-> "admin_password", value |-> Sha256(DefaultPassword)]}
            /\ Finish(s, Blank)
    /\ UNCHANGED <<tables, places, objects, seq, logged_in>>

-----------------------------------------------------------------------------
(* Credential functions. *)

get_password_hash ==
    IF \E r \in settings : r.key = "admin_password"
    THEN (CHOOSE r \in settings : r.key = "admin_password").value
    ELSE None

check_password(entered_password) == Sha256(entered_password) = get_password_hash

\* A faulty variant of update_admin_password: the WHERE clause names a key
\* no row has, so the UPDATE changes nothing.
update_admin_passwordWrongKey(new_password) ==
    {IF r.key = "password"
     THEN [r EXCEPT !.value = Sha256(new_password)] ELSE r : r \in settings}

\* UPDATE settings SET value = ? WHERE key = 'admin_password'
update_admin_password(new_password) ==
    {IF r.key = "admin_password"
     THEN [r EXCEPT !.value = Sha256(new_password)] ELSE r : r \in settings}


-----------------------------------------------------------------------------
(* Sidebar: login and logout. *)

LoginClick(s, password_input) ==
    /\ pc[s] = "idle"
    /\ ~logged_in[s]
    /\ loc' = [loc EXCEPT ![s].password = password_input]
    /\ Goto(s, "login_check")
    /\ view' = [view EXCEPT ![s] = Blank]
    /\ UNCHANGED <<db, logged_in>>

\* if check_password(password_input): logged_in = True; st.rerun()
LoginCheck(s) ==
    /\ pc[s] = "login_check"
    /\ IF check_password(loc[s].password)
       THEN logged_in' = [logged_in EXCEPT ![s] = TRUE] /\ Finish(s, Blank)
       ELSE logged_in' = logged_in /\ Finish(s, Message("incorrect_password"))
    /\ UNCHANGED db

Logout(s) ==
    /\ pc[s] = "idle"
    /\ logged_in[s]
    /\ logged_in' = [logged_in EXCEPT ![s] = FALSE]
    /\ Finish(s, Blank)
    /\ UNCHANGED db

-----------------------------------------------------------------------------
(* Place functions. *)

\* SELECT id, name FROM places (the order by name does not matter here).
get_places == places

PlaceNamed(name) == {p \in places : p.name = name}

\* SELECT id FROM places WHERE name = ?
get_place_id_by_name(name) ==
    IF PlaceNamed(name) = {} THEN NoneId
    ELSE (CHOOSE p \in PlaceNamed(name) : TRUE).id

\* A faulty variant of add_place: name is not UNIQUE, every call inserts.
add_placeNotUnique(name) ==
    /\ seq.places < MaxPlaceId
    /\ places' = places \cup {[id |-> seq.places + 1, name |-> Strip(name)]}
    /\ seq' = [seq EXCEPT !.places = seq.places + 1]

\* INSERT INTO places (name) VALUES (name.strip()); the UNIQUE conflict's
\* IntegrityError is caught and nothing is inserted.  AUTOINCREMENT never
\* hands out an identifier twice.
add_place(name) ==
    IF PlaceNamed(Strip(name)) # {}
    THEN UNCHANGED <<places, seq>>
    ELSE /\ seq.places < MaxPlaceId
         /\ places' = places \cup {[id |-> seq.places + 1, name |-> Strip(name)]}
         /\ seq' = [seq EXCEPT !.places = seq.places + 1]

\* SELECT COUNT(*) FROM objects WHERE place_id = ?
CountObjectsAt(place_id) == Cardinality({o \in objects : o.place_id = place_id})

-----------------------------------------------------------------------------
(* Object functions. *)

\* A faulty variant of object_exists: the two parameters are bound in the
\* wrong order.
object_existsSwapped(client_name, car_number) ==
    \E o \in objects : o.client_name = car_number /\ o.car_number = client_name

\* SELECT 1 FROM objects WHERE client_name = ? AND car_number = ?
object_exists(client_name, car_number) ==
    \E o \in objects : o.client_name = client_name /\ o.car_number = car_number

\* The path add_object stores the upload under, None without an upload.
ImagePath(client_name, image_file, timestamp) ==
    IF image_file = "" THEN None
    ELSE <<IMAGES_DIR, Sanitize(client_name), timestamp, image_file>>

\* INSERT INTO objects (client_name, car_number, place_id, image_path).
\* place_id is NOT NULL; its FOREIGN KEY is declared, and SQLite does not
\* enforce it unless PRAGMA foreign_keys is set, which the code never does.
add_object(client_name, car_number, place_id, image_file, timestamp) ==
    /\ seq.objects < MaxObjectId
    /\ objects' = objects \cup
          {[id |-> seq.objects + 1, client_name |-> client_name,
            car_number |-> car_number, place_id |-> place_id,
            image_path |-> ImagePath(client_name, image_file, timestamp)]}
    /\ seq' = [seq EXCEPT !.objects = seq.objects + 1]

\* UPDATE objects SET car_number = ? WHERE id = ?
update_car_number(object_id, new_number) ==
    {IF o.id = object_id THEN [o EXCEPT !.car_number = new_number] ELSE o :
        o \in objects}

\* DELETE FROM objects WHERE id = ?
delete_object(object_id) == {o \in objects : o.id # object_id}

\* objects o JOIN places p ON o.place_id = p.id
Joined == {o \in objects : \E p \in places : p.id = o.place_id}

PlaceNameOf(o) == (CHOOSE p \in places : p.id = o.place_id).name

\* A set of objects as a sequence in rowid order, the order of a table scan.
RECURSIVE ByRowid(_)
ByRowid(objs) ==
    IF objs = {} THEN <<>>
    ELSE LET o == CHOOSE x \in objs : \A y \in objs : x.id <= y.id
         IN  <<o>> \o ByRowid(objs \ {o})

ClientCarRow(o) == <<o.client_name, o.car_number, PlaceNameOf(o), o.image_path>>

PlaceRow(o) == <<o.client_name, o.car_number, o.image_path>>

search_by_client_or_car(term) ==
    LET hits == ByRowid({o \in Joined :
                            \/ Like(Wildcard(term), o.client_name)
                            \/ Like(Wildcard(term), o.car_number)})
    IN  [i \in 1..Len(hits) |-> ClientCarRow(hits[i])]

search_by_place_name(place_name) ==
    LET hits == ByRowid({o \in Joined :
                            Like(Wildcard(place_name), PlaceNameOf(o))})
    IN  [i \in 1..Len(hits) |-> PlaceRow(hits[i])]

\* SELECT o.id, ... FROM objects o JOIN places p (the entries tab 4 lists).
get_all_objects == Joined

-----------------------------------------------------------------------------
(* Tab 1: search, open to every session. *)

SearchClick(s, term) ==
    /\ pc[s] = "idle"
    /\ loc' = [loc EXCEPT ![s].term = term]
    /\ Goto(s, "search")
    /\ view' = [view EXCEPT ![s] = Blank]
    /\ UNCHANGED <<db, logged_in>>

SearchRun(s) ==
    /\ pc[s] = "search"
    /\ LET results == search_by_client_or_car(loc[s].term)
       IN  IF results # <<>>
           THEN Finish(s, [kind |-> "results", rows |-> results])
           ELSE Finish(s, Message("no_results"))
    /\ UNCHANGED <<db, logged_in>>

SearchPlaceClick(s, place_term) ==
    /\ pc[s] = "idle"
    /\ loc' = [loc EXCEPT ![s].term = place_term]
    /\ Goto(s, "search_place")
    /\ view' = [view EXCEPT ![s] = Blank]
    /\ UNCHANGED <<db, logged_in>>

SearchPlaceRun(s) ==
    /\ pc[s] = "search_place"
    /\ LET results == search_by_place_name(loc[s].term)
       IN  IF results # <<>>
           THEN Finish(s, [kind |-> "place_results", rows |-> results])
           ELSE Finish(s, Message("no_clients"))
    /\ UNCHANGED <<db, logged_in>>

-----------------------------------------------------------------------------
(* Tab 2: Add Entry. *)

\* Sessions whose script run may still insert a place, or an object: the
\* model starts a run only when the identifiers left cover all of them.
PlaceInserters == {t \in Sessions : pc[t] \in {"ap_add", "ae_check", "ae_add_place"}}

ObjectInserters ==
    {t \in Sessions :
        pc[t] \in {"ae_check", "ae_add_place", "ae_get_place_id", "ae_add_object"}}

PlaceIdsLeft(name) ==
    \/ PlaceNamed(Strip(name)) # {}
    \/ seq.places + Cardinality(PlaceInserters) < MaxPlaceId

ObjectIdsLeft == seq.objects + Cardinality(ObjectInserters) < MaxObjectId

\* The button is pressed with the form's values; final_place is the chosen
\* or the newly typed place name, stripped.
AddEntryClick(s, client_name, car_number, place_input, image) ==
    /\ pc[s] = "idle"
    /\ logged_in[s]
    /\ PlaceIdsLeft(place_input)
    /\ ObjectIdsLeft
    /\ loc' = [loc EXCEPT ![s].client_name = client_name,
                          ![s].car_number = car_number,
                          ![s].place = Strip(place_input),
                          ![s].image = image]
    /\ Goto(s, "ae_check")
    /\ view' = [view EXCEPT ![s] = Blank]
    /\ UNCHANGED <<db, logged_in>>

\* The required fields, then object_exists.
AddEntryCheck(s) ==
    /\ pc[s] = "ae_check"
    /\ IF loc[s].client_name = <<>> \/ loc[s].car_number = <<>> \/ loc[s].place = <<>>
       THEN Finish(s, Message("fields_required"))
       ELSE IF object_exists(loc[s].client_name, loc[s].car_number)
       THEN Finish(s, Message("already_registered"))
       ELSE Goto(s, "ae_add_place") /\ UNCHANGED <<loc, view>>
    /\ UNCHANGED <<db, logged_in>>

AddEntryAddPlace(s) ==
    /\ pc[s] = "ae_add_place"
    /\ add_place(loc[s].place)
    /\ Goto(s, "ae_get_place_id")
    /\ UNCHANGED <<tables, settings, objects, logged_in, loc, view>>

AddEntryGetPlaceId(s) ==
    /\ pc[s] = "ae_get_place_id"
    /\ loc' = [loc EXCEPT ![s].place_id = get_place_id_by_name(loc[s].place)]
    /\ Goto(s, "ae_add_object")
    /\ UNCHANGED <<db, logged_in, view>>

\* add_object at time.time() = timestamp.  A place_id of None violates NOT
\* NULL: IntegrityError, and the script run ends there.
AddEntryAddObject(s, timestamp) ==
    /\ pc[s] = "ae_add_object"
    /\ IF loc[s].place_id = NoneId
       THEN UNCHANGED <<objects, seq>> /\ Finish(s, Message("exception"))
       ELSE /\ add_object(loc[s].client_name, loc[s].car_number,
                          loc[s].place_id, loc[s].image, timestamp)
            /\ Finish(s, Message("entry_added"))
    /\ UNCHANGED <<tables, settings, places, logged_in>>

-----------------------------------------------------------------------------
(* Tab 3: Manage Places. *)

\* A faulty variant of AddPlaceClick: the tab is shown to every session.
AddPlaceClickUngated(s, new_place_input) ==
    /\ pc[s] = "idle"
    /\ PlaceIdsLeft(new_place_input)
    /\ loc' = [loc EXCEPT ![s].place = new_place_input]
    /\ Goto(s, "ap_add")
    /\ view' = [view EXCEPT ![s] = Blank]
    /\ UNCHANGED <<db, logged_in>>

AddPlaceClick(s, new_place_input) ==
    /\ pc[s] = "idle"
    /\ logged_in[s]
    /\ PlaceIdsLeft(new_place_input)
    /\ loc' = [loc EXCEPT ![s].place = new_place_input]
    /\ Goto(s, "ap_add")
    /\ view' = [view EXCEPT ![s] = Blank]
    /\ UNCHANGED <<db, logged_in>>

AddPlaceRun(s) ==
    /\ pc[s] = "ap_add"
    /\ IF Strip(loc[s].place) # <<>>
       THEN add_place(Strip(loc[s].place)) /\ Finish(s, Message("place_added"))
       ELSE UNCHANGED <<places, seq>> /\ Finish(s, Message("place_empty"))
    /\ UNCHANGED <<tables, settings, objects, logged_in>>

\* The Delete button of a place that get_places lists in this script run.
DeletePlaceClick(s, place_id) ==
    /\ pc[s] = "idle"
    /\ logged_in[s]
    /\ \E p \in get_places : p.id = place_id
    /\ loc' = [loc EXCEPT ![s].place_id = place_id]
    /\ Goto(s, "dp_count")
    /\ view' = [view EXCEPT ![s] = Blank]
    /\ UNCHANGED <<db, logged_in>>

\* delete_place: count = SELECT COUNT(*) ...
DeletePlaceCount(s) ==
    /\ pc[s] = "dp_count"
    /\ loc' = [loc EXCEPT ![s].count = CountObjectsAt(loc[s].place_id)]
    /\ Goto(s, "dp_delete")
    /\ UNCHANGED <<db, logged_in, view>>

\* A faulty variant of DeletePlaceDelete: the count is not looked at.
DeletePlaceDeleteUnguarded(s) ==
    /\ pc[s] = "dp_delete"
    /\ places' = {p \in places : p.id # loc[s].place_id}
    /\ Finish(s, Blank)
    /\ UNCHANGED <<tables, settings, objects, seq, logged_in>>

\* delete_place: if count == 0: DELETE FROM places WHERE id = ?; the caller
\* reruns the script on True and shows "Can't delete" on False.
DeletePlaceDelete(s) ==
    /\ pc[s] = "dp_delete"
    /\ IF loc[s].count = 0
       THEN /\ places' = {p \in places : p.id # loc[s].place_id}
            /\ Finish(s, Blank)
       ELSE /\ places' = places
            /\ Finish(s, Message("cant_delete"))
    /\ UNCHANGED <<tables, settings, objects, seq, logged_in>>

-----------------------------------------------------------------------------
(* Tab 4: Manage Entries. *)

\* The Update button of an entry that get_all_objects lists in this run.
UpdateClick(s, entry_id, new_number) ==
    /\ pc[s] = "idle"
    /\ logged_in[s]
    /\ \E o \in get_all_objects : o.id = entry_id
    /\ loc' = [loc EXCEPT ![s].object_id = entry_id, ![s].car_number = new_number]
    /\ Goto(s, "uc_update")
    /\ view' = [view EXCEPT ![s] = Blank]
    /\ UNCHANGED <<db, logged_in>>

UpdateRun(s) ==
    /\ pc[s] = "uc_update"
    /\ IF Strip(loc[s].car_number) # <<>>
       THEN /\ objects' = update_car_number(loc[s].object_id, Strip(loc[s].car_number))
            /\ Finish(s, Blank)
       ELSE /\ objects' = objects
            /\ Finish(s, Message("car_empty"))
    /\ UNCHANGED <<tables, settings, places, seq, logged_in>>

DeleteEntryClick(s, entry_id) ==
    /\ pc[s] = "idle"
    /\ logged_in[s]
    /\ \E o \in get_all_objects : o.id = entry_id
    /\ loc' = [loc EXCEPT ![s].object_id = entry_id]
    /\ Goto(s, "do_delete")
    /\ view' = [view EXCEPT ![s] = Blank]
    /\ UNCHANGED <<db, logged_in>>

DeleteEntryRun(s) ==
    /\ pc[s] = "do_delete"
    /\ objects' = delete_object(loc[s].object_id)
    /\ Finish(s, Blank)
    /\ UNCHANGED <<tables, settings, places, seq, logged_in>>

-----------------------------------------------------------------------------
(* Tab 5: Change Password. *)

ChangePasswordClick(s, current_pw, new_pw, confirm_pw) ==
    /\ pc[s] = "idle"
    /\ logged_in[s]
    /\ loc' = [loc EXCEPT ![s].password = current_pw, ![s].new_pw = new_pw,
                          ![s].confirm_pw = confirm_pw]
    /\ Goto(s, "cp_check")
    /\ view' = [view EXCEPT ![s] = Blank]
    /\ UNCHANGED <<db, logged_in>>

\* A faulty variant of ChangePasswordCheck: the confirmation is not compared.
ChangePasswordCheckUnconfirmed(s) ==
    /\ pc[s] = "cp_check"
    /\ IF ~check_password(loc[s].password)
       THEN Finish(s, Message("current_incorrect"))
       ELSE IF Len(loc[s].new_pw) < MinPasswordLen
       THEN Finish(s, Message("too_short"))
       ELSE Goto(s, "cp_update") /\ UNCHANGED <<loc, view>>
    /\ UNCHANGED <<db, logged_in>>

ChangePasswordCheck(s) ==
    /\ pc[s] = "cp_check"
    /\ IF ~check_password(loc[s].password)
       THEN Finish(s, Message("current_incorrect"))
       ELSE IF loc[s].new_pw # loc[s].confirm_pw
       THEN Finish(s, Message("no_match"))
       ELSE IF Len(loc[s].new_pw) < MinPasswordLen
       THEN Finish(s, Message("too_short"))
       ELSE Goto(s, "cp_update") /\ UNCHANGED <<loc, view>>
    /\ UNCHANGED <<db, logged_in>>

ChangePasswordUpdate(s) ==
    /\ pc[s] = "cp_update"
    /\ settings' = update_admin_password(loc[s].new_pw)
    /\ Finish(s, Message("password_updated"))
    /\ UNCHANGED <<tables, places, objects, seq, logged_in>>

-----------------------------------------------------------------------------
(* One session at a time: the inputs and the specification. *)

Passwords == {"admin123", "abcd", "abc"}

ClientNames == {<<>>, <<"a">>}

CarNumbers == {<<" ">>, <<"1">>, <<"2">>}

PlaceInputs == {<<" ">>, <<"p">>, <<" ", "p">>, <<"q">>}

Uploads == {""}

Timestamps == {1700000000}

Terms == {<<"a">>, <<"2">>}

PlaceTerms == {<<"P">>}

PlaceIds == 1..MaxPlaceId

ObjectIds == 1..MaxObjectId

\* The session whose script runs are taken one after the other.
Admin == {1}

Next ==
    \E s \in Admin :
        \/ InitDbCreate(s)
        \/ InitDbSelect(s)
        \/ InitDbInsert(s)
        \/ \E p \in Passwords : LoginClick(s, p)
        \/ LoginCheck(s)
        \/ Logout(s)
        \/ \E t \in Terms : SearchClick(s, t)
        \/ SearchRun(s)
        \/ \E t \in PlaceTerms : SearchPlaceClick(s, t)
        \/ SearchPlaceRun(s)
        \/ \E c \in ClientNames, n \in CarNumbers, p \in PlaceInputs, i \in Uploads :
               AddEntryClick(s, c, n, p, i)
        \/ AddEntryCheck(s)
        \/ AddEntryAddPlace(s)
        \/ AddEntryGetPlaceId(s)
        \/ \E t \in Timestamps : AddEntryAddObject(s, t)
        \/ \E p \in PlaceInputs : AddPlaceClick(s, p)
        \/ AddPlaceRun(s)
        \/ \E p \in PlaceIds : DeletePlaceClick(s, p)
        \/ DeletePlaceCount(s)
        \/ DeletePlaceDelete(s)
        \/ \E o \in ObjectIds, n \in CarNumbers : UpdateClick(s, o, n)
        \/ UpdateRun(s)
        \/ \E o \in ObjectIds : DeleteEntryClick(s, o)
        \/ DeleteEntryRun(s)
        \/ \E c \in Passwords, n \in Passwords, m \in Passwords :
               ChangePasswordClick(s, c, n, m)
        \/ ChangePasswordCheck(s)
        \/ ChangePasswordUpdate(s)

Spec == Init /\ [][Next]_vars

-----------------------------------------------------------------------------
(* One session, with names and terms that exercise LIKE and uploads. *)

SearchPasswords == {"admin123"}

SearchClientNames == {<<"A", "b">>, <<"b">>}

SearchCarNumbers == {<<"1">>}

SearchPlaceInputs == {<<"p">>}

SearchUploads == {"", ".png"}

SearchTerms == {<<>>, <<"a">>, <<"B">>, <<"_">>, <<"z">>}

NextSearch ==
    \E s \in Admin :
        \/ InitDbCreate(s)
        \/ InitDbSelect(s)
        \/ InitDbInsert(s)
        \/ \E p \in SearchPasswords : LoginClick(s, p)
        \/ LoginCheck(s)
        \/ Logout(s)
        \/ \E t \in SearchTerms : SearchClick(s, t)
        \/ SearchRun(s)
        \/ \E t \in PlaceTerms : SearchPlaceClick(s, t)
        \/ SearchPlaceRun(s)
        \/ \E c \in SearchClientNames, n \in SearchCarNumbers,
              p \in SearchPlaceInputs, i \in SearchUploads :
               AddEntryClick(s, c, n, p, i)
        \/ AddEntryCheck(s)
        \/ AddEntryAddPlace(s)
        \/ AddEntryGetPlaceId(s)
        \/ \E t \in Timestamps : AddEntryAddObject(s, t)
        \/ \E o \in ObjectIds : DeleteEntryClick(s, o)
        \/ DeleteEntryRun(s)

SpecSearch == Init /\ [][NextSearch]_vars

-----------------------------------------------------------------------------
(* Two sessions whose script runs interleave statement by statement. *)

ConcPasswords == {"admin123", "abc"}

ConcClientNames == {<<"a">>}

ConcCarNumbers == {<<"1">>}

ConcPlaceInputs == {<<"p">>}

ConcTerms == {<<"a">>}

NextConc ==
    \E s \in Sessions :
        \/ InitDbCreate(s)
        \/ InitDbSelect(s)
        \/ InitDbInsert(s)
        \/ \E p \in ConcPasswords : LoginClick(s, p)
        \/ LoginCheck(s)
        \/ Logout(s)
        \/ \E t \in ConcTerms : SearchClick(s, t)
        \/ SearchRun(s)
        \/ \E t \in PlaceTerms : SearchPlaceClick(s, t)
        \/ SearchPlaceRun(s)
        \/ \E c \in ConcClientNames, n \in ConcCarNumbers, p \in ConcPlaceInputs,
              i \in Uploads :
               AddEntryClick(s, c, n, p, i)
        \/ AddEntryCheck(s)
        \/ AddEntryAddPlace(s)
        \/ AddEntryGetPlaceId(s)
        \/ \E t \in Timestamps : AddEntryAddObject(s, t)
        \/ \E p \in ConcPlaceInputs : AddPlaceClick(s, p)
        \/ AddPlaceRun(s)
        \/ \E p \in PlaceIds : DeletePlaceClick(s, p)
        \/ DeletePlaceCount(s)
        \/ DeletePlaceDelete(s)
        \/ \E o \in ObjectIds, n \in ConcCarNumbers : UpdateClick(s, o, n)
        \/ UpdateRun(s)
        \/ \E o \in ObjectIds : DeleteEntryClick(s, o)
        \/ DeleteEntryRun(s)
        \/ \E c \in ConcPasswords, n \in SearchPasswords, m \in SearchPasswords :
               ChangePasswordClick(s, c, n, m)
        \/ ChangePasswordCheck(s)
        \/ ChangePasswordUpdate(s)

SpecConc == Init /\ [][NextConc]_vars

-----------------------------------------------------------------------------
(* Vocabulary of the properties. *)

\* Session s executes the statement at label l in this step.
Leaves(s, l) == pc[s] = l /\ pc'[s] # l

Referenced(place_id) == \E o \in objects : o.place_id = place_id

StoredHash(rows) == {r.value : r \in {x \in rows : x.key = "admin_password"}}

AdminLabels ==
    {"ae_check", "ae_add_place", "ae_get_place_id", "ae_add_object", "ap_add",
     "dp_count", "dp_delete", "uc_update", "do_delete", "cp_check", "cp_update"}

-----------------------------------------------------------------------------
(* C1: delete_place on a place that some object references returns False  *)
(* (the page shows "Can't delete") and changes neither places nor         *)
(* objects; on a place no object references it returns True (the script   *)
(* reruns), the place is gone, and every other place and every object is  *)
(* as before.                                                             *)
DeletePlaceGuard ==
    [][\A s \in Sessions :
          /\ Leaves(s, "dp_count") => places' = places /\ objects' = objects
          /\ Leaves(s, "dp_delete") =>
                IF Referenced(loc[s].place_id)
                THEN /\ view'[s].kind = "cant_delete"
                     /\ places' = places
                     /\ objects' = objects
                ELSE /\ view'[s].kind = "none"
                     /\ \A p \in places' : p.id # loc[s].place_id
                     /\ \A p \in places : p.id # loc[s].place_id => p \in places'
                     /\ places' \subseteq places
                     /\ objects' = objects]_vars

\* A place was deleted earlier, and now a delete of a place in use is refused.
DeletePlaceGuardWitness ==
    /\ view[1].kind = "cant_delete"
    /\ Cardinality(places) < seq.places
    /\ \E p \in places : Referenced(p.id)

-----------------------------------------------------------------------------
(* C2: an Add Entry whose (client name, car number) pair some object      *)
(* already has ends at the existence check: no statement writes, and      *)
(* places and objects are as before, also when its place name is new.     *)
DuplicateEntryRejected ==
    [][\A s \in Sessions :
          (/\ Leaves(s, "ae_check")
           /\ \E o \in objects : /\ o.client_name = loc[s].client_name
                                 /\ o.car_number = loc[s].car_number)
          => /\ pc'[s] = "idle"
             /\ view'[s].kind \in {"already_registered", "fields_required"}
             /\ objects' = objects
             /\ places' = places
             /\ seq' = seq]_vars

DuplicateEntryRejectedWitness ==
    /\ view[1].kind = "already_registered"
    /\ Cardinality(objects) = 1
    /\ Cardinality(places) = 1

-----------------------------------------------------------------------------
\* A step that calls add_place, and a name without outer whitespace.
AddPlaceCall(s) ==
    \/ Leaves(s, "ae_add_place")
    \/ Leaves(s, "ap_add") /\ Strip(loc[s].place) # <<>>

Trimmed(name) ==
    name # <<>> /\ name[1] \notin Whitespace /\ name[Len(name)] \notin Whitespace

(* C3: add_place(n) leaves exactly one place named trim(n), raises no     *)
(* error, and when such a place was there already it changes nothing: not *)
(* that place's identifier, no other place, no object.                    *)
AddPlaceIdempotent ==
    [][\A s \in Sessions :
          AddPlaceCall(s) =>
             LET n == Strip(loc[s].place)
             IN  /\ Cardinality({p \in places' : p.name = n}) = 1
                 /\ \A p \in places' : Trimmed(p.name)
                 /\ places \subseteq places'
                 /\ objects' = objects
                 /\ (\E p \in places : p.name = n) => places' = places /\ seq' = seq
                 /\ view'[s].kind # "exception"]_vars

\* add_place ran with the name of the one place ever inserted, which an
\* object already references.
AddPlaceIdempotentWitness ==
    /\ view[1].kind = "place_added"
    /\ seq.places = 1
    /\ Cardinality(places) = 1
    /\ objects # {}

-----------------------------------------------------------------------------
\* The passwords check_password is asked about.
Candidates == Passwords \cup {""}

(* C4: after update_admin_password(X), check_password(X) is True and      *)
(* check_password(Y) is False for every other Y, and no statement other   *)
(* than the next update_admin_password changes what check_password        *)
(* returns in an initialized store.                                       *)
CredentialRoundTrip ==
    [][/\ \A s \in Sessions :
             Leaves(s, "cp_update") =>
                \A y \in Candidates : check_password(y)' <=> (y = loc[s].new_pw)
       /\ (settings # {} /\ ~ \E s \in Sessions : Leaves(s, "cp_update")) =>
             \A y \in Candidates : check_password(y)' <=> check_password(y)]_vars

\* The password was changed, and an entry has been added since.
CredentialRoundTripWitness ==
    /\ check_password("abcd")
    /\ ~check_password(DefaultPassword)
    /\ view[1].kind = "entry_added"

-----------------------------------------------------------------------------
\* The three checks of the Update Password action on its inputs.
ChecksPass(s) ==
    /\ StoredHash(settings) = {Sha256(loc[s].password)}
    /\ loc[s].new_pw = loc[s].confirm_pw
    /\ Len(loc[s].new_pw) >= 4

(* C5: the stored hash changes only in an Update Password action whose    *)
(* current password verifies, whose new password equals its confirmation  *)
(* and has at least 4 characters; it then becomes the hash of the new     *)
(* password, and when a check fails it stays as it was.                   *)
PasswordChangeGuarded ==
    [][/\ \A s \in Sessions :
             /\ Leaves(s, "cp_check") =>
                   /\ settings' = settings
                   /\ IF ChecksPass(s) THEN pc'[s] = "cp_update" /\ loc'[s] = loc[s]
                                       ELSE pc'[s] = "idle"
             /\ Leaves(s, "cp_update") =>
                   StoredHash(settings') = {Sha256(loc[s].new_pw)}
       /\ (settings # {} /\ StoredHash(settings') # StoredHash(settings)) =>
             \E s \in Sessions : Leaves(s, "cp_update") /\ ChecksPass(s)]_vars

PasswordChangeGuardedWitness ==
    /\ view[1].kind = "password_updated"
    /\ StoredHash(settings) = {Sha256("abcd")}

-----------------------------------------------------------------------------
\* A step that changes a place, an object or the credential.
Mutated ==
    \/ places' # places
    \/ objects' # objects
    \/ (settings # {} /\ settings' # settings)

(* C6: a session runs a mutating handler only while its logged_in flag is *)
(* True; the flag starts False, turns True only in a Login whose password *)
(* verifies against the hash stored then, and turns False in Logout; a    *)
(* search changes no place, no object and no credential.                  *)
AdminGating ==
    /\ \A s \in Sessions : ~logged_in[s]
    /\ [][/\ \A s \in Sessions :
                /\ pc'[s] \in AdminLabels => logged_in[s] /\ logged_in'[s]
                /\ (~logged_in[s] /\ logged_in'[s]) =>
                      /\ Leaves(s, "login_check")
                      /\ StoredHash(settings) = {Sha256(loc[s].password)}
                /\ (logged_in[s] /\ ~logged_in'[s]) =>
                      pc[s] = "idle" /\ pc'[s] = "idle"
                /\ (Leaves(s, "search") \/ Leaves(s, "search_place")) => ~Mutated
          /\ Mutated =>
                \E s \in Sessions :
                    pc[s] \in AdminLabels /\ pc'[s] # pc[s] /\ logged_in[s]]_vars

\* Session 1 is logged in and has added an entry; session 2, not logged
\* in, searches and is shown it.
AdminGatingWitness ==
    /\ logged_in[1]
    /\ ~logged_in[2]
    /\ view[2].kind = "results"

-----------------------------------------------------------------------------
\* Substring containment with letters compared without case.
Fold(ch) ==
    CASE ch = "A" -> "a"
      [] ch = "B" -> "b"
      [] OTHER -> ch

Contains(str, term) ==
    \E i \in 0..(Len(str) - Len(term)) :
        \A k \in 1..Len(term) : Fold(str[i + k]) = Fold(term[k])

Matching(term) ==
    ByRowid({o \in objects : \/ Contains(o.client_name, term)
                             \/ Contains(o.car_number, term)})

(* C7: search_by_client_or_car(term) returns one row (client name, car    *)
(* number, place name, image path) for each object whose client name or   *)
(* car number contains term as a substring, letters compared without      *)
(* case, and no other row; with no such object it returns the empty list. *)
SearchIsSubstringMatch ==
    [][\A s \in Sessions :
          Leaves(s, "search") =>
             LET hits == Matching(loc[s].term)
             IN  /\ Len(view'[s].rows) = Len(hits)
                 /\ \A i \in 1..Len(hits) :
                       /\ view'[s].rows[i][1] = hits[i].client_name
                       /\ view'[s].rows[i][2] = hits[i].car_number
                       /\ \E p \in places : /\ p.id = hits[i].place_id
                                            /\ view'[s].rows[i][3] = p.name
                       /\ view'[s].rows[i][4] = hits[i].image_path]_vars

-----------------------------------------------------------------------------
\* A step of init_db, and the row it inserts into an empty store.
InitDbStep(s) ==
    \/ pc[s] \in {"start", "idle"} /\ pc'[s] = "init_select"
    \/ Leaves(s, "init_select")
    \/ Leaves(s, "init_insert")

DefaultRow == [key |-> "admin_password", value |-> <<"sha256", "admin123">>]

(* C8: init_db on an empty store inserts the one settings row             *)
(* admin_password with the hash of the default password; every later call *)
(* leaves the credential, the places and the objects as they are, and     *)
(* once a script run is past init_db there is exactly one credential row. *)
InitDbIdempotent ==
    /\ settings = {}
    /\ [][/\ \A s \in Sessions :
                InitDbStep(s) =>
                   /\ places' = places
                   /\ objects' = objects
                   /\ IF settings # {} THEN settings' = settings
                      ELSE IF Leaves(s, "init_insert") THEN settings' = {DefaultRow}
                      ELSE settings' = settings
                   /\ pc'[s] = "idle" => Cardinality(settings') = 1
          /\ \A s \in Sessions :
                pc'[s] \notin {"start", "init_select", "init_insert"} =>
                   /\ Cardinality(settings') = 1
                   /\ \A r \in settings' : r.key = "admin_password"]_vars

\* init_db runs again after the password was changed and an entry added.
InitDbIdempotentWitness ==
    /\ pc[1] = "init_select"
    /\ StoredHash(settings) = {Sha256("abcd")}
    /\ objects # {}
    /\ places # {}

-----------------------------------------------------------------------------
(* C9: every object's place_id is the id of a place that exists.          *)
ReferentialIntegrity ==
    \A o \in objects : \E p \in places : p.id = o.place_id

-----------------------------------------------------------------------------
(* C10: no two distinct objects have the same (client name, car number).  *)
UniqueRegistrations ==
    \A o1 \in objects : \A o2 \in objects :
        (o1.client_name = o2.client_name /\ o1.car_number = o2.car_number)
        => o1.id = o2.id

=============================================================================
